---- MODULE Spec2Model ----
(***************************************************************************)
(* Procurement 2.0: freight-lane reverse auction.                          *)
(*                                                                         *)
(* The model covers the Express API of server/routes.ts running on the     *)
(* PostgreSQL storage (PgStorage, the instance exported as `storage`),     *)
(* with the tables and constraints of shared/schema.ts and createTables.   *)
(* MemStorage, the unused in-memory implementation of the same interface,  *)
(* is modelled as pure operators next to it for comparison.                *)
(*                                                                         *)
(* Text (locations, decimal amounts, path parameters) is a sequence of     *)
(* one-character strings, so that LIKE, toLowerCase, parseInt, parseFloat  *)
(* and the numeric(10,2) conversion are computed, not assumed.             *)
(* A bid amount in a request is a JS number given in thousandths (mills);  *)
(* a stored amount is numeric(10,2), held in hundredths (cents).           *)
(*                                                                         *)
(* The users.email column (NOT NULL, never supplied by the register        *)
(* handler nor by the seed) is not part of the user record of this model;  *)
(* where the code reads user.email the model takes the user's id.          *)
(***************************************************************************)
EXTENDS Integers, Sequences, FiniteSets, TLC

\* ------------------------------------------------------------------ bounds
\* rows ever inserted into users, lanes and bids in the behaviours of Spec
MaxUsers == 3
MaxLanes == 1
MaxBids == 2
\* ... and into lanes and bids in the behaviours of SpecAgg
AggLanes == 2
AggBids == 2
\* lanes created in the behaviours that query GET /api/lanes with filters
FilterLanes == 3
\* lanes and accepted bid submissions in the behaviours that rank and list bids
RankLanes == 1
RankBids == 3
\* lanes and bid submissions in the behaviours of two interleaved sessions
RaceLanes == 1
RaceBids == 2
\* lanes and bid submissions in the behaviours that interleave lane updates,
\* lane deletions and bids
ConcLanes == 1
ConcBids == 1
\* lanes and bid submissions in the behaviours that read a lane query by query
ReadLanes == 1
ReadBids == 1
\* lanes and bid submissions in the behaviours that update lanes
EditLanes == 2
EditBids == 1
\* values of users.id taken in the behaviours of interleaved registrations
RegUsers == 5

\* ------------------------------------------------------- program constants
NumericPrecision == 10
NumericScale == 2

Callers == {"c1", "c2"}

Roles == {"admin", "forwarder"}
Statuses == {"active", "archived", "ending_soon"}
VehicleTypes == {"40t", "12t", "van"}

\* ------------------------------------------------------------------- text
Digits == <<"0", "1", "2", "3", "4", "5", "6", "7", "8", "9">>
UpperChars == <<"A", "B", "H", "M", "U">>
LowerChars == <<"a", "b", "h", "m", "u">>

IsDigit(c) == \E i \in 1..10 : Digits[i] = c
DigitVal(c) == (CHOOSE i \in 1..10 : Digits[i] = c) - 1

\* code point order of the characters a decimal string is made of
CharCode(c) == IF c = "-" THEN 45 ELSE IF c = "." THEN 46 ELSE 48 + DigitVal(c)

toLowerCaseChar(c) ==
  IF \E i \in 1..Len(UpperChars) : UpperChars[i] = c
  THEN LowerChars[CHOOSE i \in 1..Len(UpperChars) : UpperChars[i] = c]
  ELSE c

toLowerCase(s) == [i \in 1..Len(s) |-> toLowerCaseChar(s[i])]

\* String.prototype.includes
includes(s, t) ==
  \E k \in 0..(Len(s) - Len(t)) : SubSeq(s, k + 1, k + Len(t)) = t

\* SQL LIKE: % matches any run of characters, _ any one character, every
\* other character itself, case-sensitively
RECURSIVE LikeMatch(_, _)
LikeMatch(t, p) ==
  IF p = <<>> THEN t = <<>>
  ELSE IF Head(p) = "%"
       THEN \E k \in 0..Len(t) : LikeMatch(SubSeq(t, k + 1, Len(t)), Tail(p))
       ELSE /\ t # <<>>
            /\ (Head(p) = "_" \/ Head(p) = Head(t))
            /\ LikeMatch(Tail(t), Tail(p))

\* drizzle like(column, `%${text}%`)
like(column, text) == LikeMatch(column, <<"%">> \o text \o <<"%">>)

\* lexical (code point) order of two decimal strings
RECURSIVE LexLess(_, _)
LexLess(s, t) ==
  IF t = <<>> THEN FALSE
  ELSE IF s = <<>> THEN TRUE
  ELSE IF CharCode(Head(s)) # CharCode(Head(t))
       THEN CharCode(Head(s)) < CharCode(Head(t))
       ELSE LexLess(Tail(s), Tail(t))

\* --------------------------------------------------------------- numbers
RECURSIVE NatToString(_)
NatToString(n) ==
  IF n < 10 THEN <<Digits[n + 1]>>
  ELSE NatToString(n \div 10) \o <<Digits[(n % 10) + 1]>>

RECURSIVE StringToNat(_)
StringToNat(s) ==
  IF s = <<>> THEN 0
  ELSE 10 * StringToNat(SubSeq(s, 1, Len(s) - 1)) + DigitVal(s[Len(s)])

RECURSIVE Pow10(_)
Pow10(k) == IF k = 0 THEN 1 ELSE 10 * Pow10(k - 1)

\* numeric(10,2) input conversion of a decimal given in mills: round to
\* two places, half away from zero
NumericRound(mills) ==
  IF mills >= 0 THEN (mills + 5) \div 10 ELSE 0 - ((5 - mills) \div 10)

\* a value of 10^(precision-scale) or more overflows the column
NumericOverflow(cents) ==
  LET a == IF cents < 0 THEN 0 - cents ELSE cents
  IN a \div Pow10(NumericScale) >= Pow10(NumericPrecision - NumericScale)

\* text of a numeric(10,2) value, as the driver returns it: "9.00"
NumericToString(cents) ==
  LET a == IF cents < 0 THEN 0 - cents ELSE cents
      frac == a % Pow10(NumericScale)
      body == NatToString(a \div Pow10(NumericScale)) \o <<".">>
              \o <<Digits[(frac \div 10) + 1], Digits[(frac % 10) + 1]>>
  IN IF cents < 0 THEN <<"-">> \o body ELSE body

\* parseFloat of such a text; the JS number is held in cents
parseFloat(s) ==
  LET neg == s # <<>> /\ Head(s) = "-"
      u == IF neg THEN Tail(s) ELSE s
      dot == CHOOSE i \in 1..Len(u) : u[i] = "."
      v == StringToNat(SubSeq(u, 1, dot - 1)) * Pow10(NumericScale)
           + StringToNat(SubSeq(u, dot + 1, Len(u)))
  IN IF neg THEN 0 - v ELSE v

\* parseInt of a path parameter: the leading digits, NaN when there are none
NaN == [nan |-> TRUE, val |-> 0]
RECURSIVE LeadingDigits(_)
LeadingDigits(s) ==
  IF s = <<>> \/ ~IsDigit(Head(s)) THEN <<>>
  ELSE <<Head(s)>> \o LeadingDigits(Tail(s))

parseInt(s) ==
  IF LeadingDigits(s) = <<>> THEN NaN
  ELSE [nan |-> FALSE, val |-> StringToNat(LeadingDigits(s))]

isNaN(n) == n.nan

\* ------------------------------------------------------------------ state
VARIABLES
  users,     \* table users: set of rows
  lanes,     \* table lanes: set of rows
  bids,      \* table bids: set of rows
  userSeq,   \* last value of the serial users.id
  laneSeq,   \* last value of the serial lanes.id
  bidSeq,    \* last value of the serial bids.id
  now,       \* CURRENT_TIMESTAMP
  session,   \* per caller (cookie): req.session
  pending,   \* per caller: the request in flight, between two awaits
  resp,      \* the response sent last
  outbox     \* the notification handed to the mail transport with it

vars == <<users, lanes, bids, userSeq, laneSeq, bidSeq, now, session, pending, resp,
          outbox>>
tables == <<users, lanes, bids>>

\* optional values: undefined is <<>>, a value v is <<v>>
undefined == <<>>
Some(v) == <<v>>

\* req.session without a login: userId is falsy
NoSession == [userId |-> 0, username |-> "", role |-> ""]
Idle == [op |-> "idle"]
\* JSON bodies: { message } and arrays
Msg(m) == [message |-> m]
Rows(r) == [rows |-> r]

NoResponse == [caller |-> "", op |-> "", status |-> 0, body |-> Msg("")]

\* no notification was handed to the transport
NoMail == [to |-> {}, laneId |-> 0, outcome |-> "none"]

\* initDatabase seed: one admin, one forwarder
SeedUsers ==
  { [id |-> 1, username |-> "admin", password |-> "admin123",
     companyName |-> "Admin Company", role |-> "admin"],
    [id |-> 2, username |-> "user", password |-> "user123",
     companyName |-> "Freight Co.", role |-> "forwarder"] }

Init ==
  /\ users = SeedUsers
  /\ lanes = {}
  /\ bids = {}
  /\ userSeq = 2
  /\ laneSeq = 0
  /\ bidSeq = 0
  /\ now = 0
  /\ session = [c \in Callers |-> NoSession]
  /\ pending = [c \in Callers |-> Idle]
  /\ resp = NoResponse
  /\ outbox = NoMail

\* ---------------------------------------------------------------- storage
\* all orders of the rows of S in which key never decreases
RECURSIVE SortedAsc(_, _)
SortedAsc(S, key) ==
  IF S = {} THEN { <<>> }
  ELSE UNION { { <<m>> \o s : s \in SortedAsc(S \ {m}, key) } :
               m \in { x \in S : \A y \in S : x[key] <= y[key] } }

\* all orders of the rows of S in which key never increases
RECURSIVE SortedDesc(_, _)
SortedDesc(S, key) ==
  IF S = {} THEN { <<>> }
  ELSE UNION { { <<m>> \o s : s \in SortedDesc(S \ {m}, key) } :
               m \in { x \in S : \A y \in S : x[key] >= y[key] } }

getUser(id) ==
  IF \E u \in users : u.id = id
  THEN Some(CHOOSE u \in users : u.id = id) ELSE undefined

getUserByUsername(username) ==
  IF \E u \in users : u.username = username
  THEN Some(CHOOSE u \in users : u.username = username) ELSE undefined

getAllUsers == users

getLane(id) ==
  IF \E l \in lanes : l.id = id
  THEN Some(CHOOSE l \in lanes : l.id = id) ELSE undefined

\* a bids row as the driver returns it: amount is the text of the numeric
BidRow(b) == [b EXCEPT !.amount = NumericToString(b.amount)]

getLowestBidForLane_lexical(laneId) ==
  LET rows == { b \in bids : b.laneId = laneId }
  IN IF rows = {} THEN undefined
     ELSE LET first == CHOOSE b \in rows : \A o \in rows :
                         ~LexLess(BidRow(o).amount, BidRow(b).amount)
          IN Some(parseFloat(BidRow(first).amount))

\* ORDER BY amount ASC LIMIT 1, then parseFloat of the amount text
getLowestBidForLane(laneId) ==
  LET rows == { b \in bids : b.laneId = laneId }
  IN IF rows = {} THEN undefined
     ELSE LET first == CHOOSE b \in rows : \A o \in rows : b.amount <= o.amount
          IN Some(parseFloat(BidRow(first).amount))

getBidCountForLane_allLanes(laneId) == Cardinality(bids)

\* SELECT count(*) FROM bids WHERE lane_id = laneId
getBidCountForLane(laneId) == Cardinality({ b \in bids : b.laneId = laneId })

\* ORDER BY amount ASC, each row joined with its user
WithUser(b) ==
  LET u == getUser(b.userId)
  IN [id |-> b.id, laneId |-> b.laneId, userId |-> b.userId,
      amount |-> NumericToString(b.amount), comment |-> b.comment,
      createdAt |-> b.createdAt,
      username |-> IF u = undefined THEN "Unknown" ELSE u[1].username,
      companyName |-> IF u = undefined THEN "Unknown Company" ELSE u[1].companyName]

getBidsByLane_insertionOrder(laneId) ==
  { [i \in DOMAIN s |-> WithUser(s[i])] :
      s \in SortedAsc({ b \in bids : b.laneId = laneId }, "id") }

\* PgStorage.getBidsByLane: the possible results, equal amounts in any order
getBidsByLane(laneId) ==
  { [i \in DOMAIN s |-> WithUser(s[i])] :
      s \in SortedAsc({ b \in bids : b.laneId = laneId }, "amount") }

\* a filter is applied when its value is truthy and not 'all'
AppliesEnum(f) == f # undefined /\ f[1] # "" /\ f[1] # "all"
AppliesText(f) == f # undefined /\ f[1] # <<>> /\ f[1] # <<"a", "l", "l">>

\* eq(lanes.status, x) on an enum column raises for a text that is no member
getLanesThrows(filters) ==
  \/ AppliesEnum(filters.status) /\ filters.status[1] \notin Statuses
  \/ AppliesEnum(filters.vehicleType) /\ filters.vehicleType[1] \notin VehicleTypes

LaneMatches_statusOnly(lane, filters) ==
  /\ AppliesEnum(filters.status) => lane.status = filters.status[1]
  /\ ~AppliesEnum(filters.status) =>
       (AppliesEnum(filters.vehicleType) => lane.vehicleType = filters.vehicleType[1])
  /\ AppliesText(filters.loadingLocation) =>
       like(lane.loadingLocation, filters.loadingLocation[1])
  /\ AppliesText(filters.unloadingLocation) =>
       like(lane.unloadingLocation, filters.unloadingLocation[1])

\* and(...conditions) of the filters that apply
LaneMatches(lane, filters) ==
  /\ AppliesEnum(filters.status) => lane.status = filters.status[1]
  /\ AppliesEnum(filters.vehicleType) => lane.vehicleType = filters.vehicleType[1]
  /\ AppliesText(filters.loadingLocation) =>
       like(lane.loadingLocation, filters.loadingLocation[1])
  /\ AppliesText(filters.unloadingLocation) =>
       like(lane.unloadingLocation, filters.unloadingLocation[1])

WithBids(lane) ==
  [id |-> lane.id, bidName |-> lane.bidName, status |-> lane.status,
   vehicleType |-> lane.vehicleType, loadingLocation |-> lane.loadingLocation,
   unloadingLocation |-> lane.unloadingLocation, validFrom |-> lane.validFrom,
   validUntil |-> lane.validUntil, createdAt |-> lane.createdAt,
   createdBy |-> lane.createdBy,
   minBid |-> getLowestBidForLane(lane.id),
   bidCount |-> getBidCountForLane(lane.id)]

getLanes_oldestFirst(filters) ==
  { [i \in DOMAIN s |-> WithBids(s[i])] :
      s \in SortedAsc({ l \in lanes : LaneMatches(l, filters) }, "createdAt") }

\* the possible results: ORDER BY created_at DESC leaves ties in any order
getLanes(filters) ==
  { [i \in DOMAIN s |-> WithBids(s[i])] :
      s \in SortedDesc({ l \in lanes : LaneMatches(l, filters) }, "createdAt") }

\* MemStorage.getLanes keeps a lane when the lower-cased location includes
\* the lower-cased filter text
MemLaneMatches(lane, filters) ==
  /\ AppliesEnum(filters.status) => lane.status = filters.status[1]
  /\ AppliesEnum(filters.vehicleType) => lane.vehicleType = filters.vehicleType[1]
  /\ AppliesText(filters.loadingLocation) =>
       includes(toLowerCase(lane.loadingLocation),
                toLowerCase(filters.loadingLocation[1]))
  /\ AppliesText(filters.unloadingLocation) =>
       includes(toLowerCase(lane.unloadingLocation),
                toLowerCase(filters.unloadingLocation[1]))

\* ----------------------------------------------------------------- inputs
Has(body, f) == f \in DOMAIN body

\* POST /api/register bodies; the last one fails insertUserSchema
RegisterBodies ==
  { [username |-> "acme", password |-> "pw", companyName |-> "Acme A", role |-> "admin"],
    [username |-> "acme", password |-> "pw", companyName |-> "Acme"],
    [username |-> "user", password |-> "pw", companyName |-> "Acme", role |-> "forwarder"],
    [username |-> "acme", companyName |-> "Acme", role |-> "root"] }

\* POST /api/login bodies
LoginBodies ==
  { [username |-> "admin", password |-> "admin123"],
    [username |-> "user", password |-> "user123"],
    [username |-> "acme", password |-> "pw"],
    [username |-> "admin", password |-> "user123"],
    [username |-> "admin", password |-> ""],
    [username |-> "admin"] }

Hanover == <<"H", "a", "n", "o", "v", "e", "r">>
Munich == <<"M", "u", "n", "i", "c", "h">>
ulm == <<"u", "l", "m">>

\* POST /api/lanes bodies; the last one fails insertLaneSchema
LaneBodies ==
  { [bidName |-> "HAN-MUC", vehicleType |-> "40t", loadingLocation |-> Hanover,
     unloadingLocation |-> Munich, validFrom |-> 1, validUntil |-> 2, createdBy |-> 2],
    [bidName |-> "HAN-MUC", vehicleType |-> "bike", loadingLocation |-> Hanover,
     unloadingLocation |-> Munich, validFrom |-> 1, validUntil |-> 2] }

\* PUT /api/lanes/:id bodies; the last one fails the partial schema
LaneUpdates ==
  { [status |-> "archived"],
    [status |-> "ending_soon"],
    [status |-> "active"],
    [createdBy |-> 9],
    [status |-> "closed"] }

\* the :id path parameters: the ids 1..n and a text that is no number
LaneIdParams(n) == { NatToString(i) : i \in 1..n } \cup { <<"x">> }

\* a JS value given as the amount of a bid: a number (in mills) or not
Num(mills) == [type |-> "number", mills |-> mills]

\* POST /api/lanes/:id/bids bodies
BidBodies ==
  { [amount |-> Num(9000)],
    [amount |-> Num(0)],
    [amount |-> Num(0 - 9000)],
    [amount |-> [type |-> "string", mills |-> 9000]],
    [comment |-> "no amount"] }

\* ... with the amounts 9.00, 10.00 and 0.004
AggBidBodies ==
  { [amount |-> Num(9000)],
    [amount |-> Num(10000), comment |-> "best offer"],
    [amount |-> Num(4)] }

\* ------------------------------------------------------------- middleware
requireAuth(c) == session[c].userId # 0

requireAdmin_anyUser(c) == session[c].userId # 0

requireAdmin(c) == session[c].userId # 0 /\ session[c].role = "admin"

Respond(c, op, status, body) ==
  resp' = [caller |-> c, op |-> op, status |-> status, body |-> body]

\* the previous response has been written out and c has no request in flight
IsIdle(c) == resp.op = "" /\ pending[c].op = "idle"

\* c has a request in flight that awaits the statement named op
Awaits(c, op) == resp.op = "" /\ pending[c].op = op

InFlight(op) == Cardinality({ c \in Callers : pending[c].op = op })

PublicUser(u) ==
  [id |-> u.id, username |-> u.username, companyName |-> u.companyName, role |-> u.role]

SessionOf(u) == [userId |-> u.id, username |-> u.username, role |-> u.role]

\* ------------------------------------------------------------ auth routes
\* insertUserSchema: username, password, companyName are required texts,
\* role is optional and one of the enum
ValidUserBody(body) ==
  /\ Has(body, "username") /\ Has(body, "password") /\ Has(body, "companyName")
  /\ Has(body, "role") => body.role \in Roles

RegisterRole_fromBody(body) == IF Has(body, "role") THEN body.role ELSE "forwarder"

\* the role the handler passes to storage.createUser
RegisterRole(body) == "forwarder"

\* POST /api/register up to the await of getUserByUsername
Register(c, body) ==
  /\ IsIdle(c)
  /\ IF ~requireAdmin(c)
     THEN /\ Respond(c, "register", 403, Msg("Forbidden: Admin access required"))
          /\ UNCHANGED pending
     ELSE IF ~ValidUserBody(body)
     THEN /\ Respond(c, "register", 400, Msg("validation"))
          /\ UNCHANGED pending
     ELSE IF getUserByUsername(body.username) # undefined
     THEN /\ Respond(c, "register", 400, Msg("Username already exists"))
          /\ UNCHANGED pending
     ELSE /\ pending' = [pending EXCEPT ![c] = [op |-> "register", body |-> body]]
          /\ UNCHANGED resp
  /\ UNCHANGED <<users, lanes, bids, userSeq, laneSeq, bidSeq, now, session, outbox>>

UsernameTaken_unchecked(username) == FALSE

\* users.username is UNIQUE: an insert of a taken username raises
UsernameTaken(username) == \E u \in users : u.username = username

\* ... and from storage.createUser on: the insert takes the next serial value
\* and raises on a taken username
RegisterInsert(c) ==
  /\ Awaits(c, "register")
  /\ LET body == pending[c].body
         user == [id |-> userSeq + 1, username |-> body.username,
                  password |-> body.password, companyName |-> body.companyName,
                  role |-> RegisterRole(body)]
     IN /\ userSeq' = userSeq + 1
        /\ IF UsernameTaken(user.username)
           THEN /\ Respond(c, "register", 500, Msg("Server error"))
                /\ UNCHANGED <<users, session>>
           ELSE /\ users' = users \cup {user}
                /\ session' = [session EXCEPT ![c] = SessionOf(user)]
                /\ Respond(c, "register", 201, PublicUser(user))
  /\ pending' = [pending EXCEPT ![c] = Idle]
  /\ UNCHANGED <<lanes, bids, laneSeq, bidSeq, now, outbox>>

\* !username, !password: the field is absent or the empty text
Provided(body, f) == Has(body, f) /\ body[f] # ""

CredentialsMatch_anyPassword(user, body) == user # undefined

\* user && user.password === password
CredentialsMatch(user, body) ==
  user # undefined /\ user[1].password = body.password

\* POST /api/login
Login(c, body) ==
  /\ IsIdle(c)
  /\ IF ~Provided(body, "username") \/ ~Provided(body, "password")
     THEN /\ Respond(c, "login", 400, Msg("Username and password are required"))
          /\ UNCHANGED session
     ELSE LET user == getUserByUsername(body.username)
          IN IF ~CredentialsMatch(user, body)
             THEN /\ Respond(c, "login", 401, Msg("Invalid credentials"))
                  /\ UNCHANGED session
             ELSE /\ session' = [session EXCEPT ![c] = SessionOf(user[1])]
                  /\ Respond(c, "login", 200, PublicUser(user[1]))
  /\ UNCHANGED <<users, lanes, bids, userSeq, laneSeq, bidSeq, now, pending, outbox>>

Logout_keepsSession(c) ==
  /\ IsIdle(c)
  /\ Respond(c, "logout", 200, Msg("Logged out successfully"))
  /\ UNCHANGED <<users, lanes, bids, userSeq, laneSeq, bidSeq, now, session, pending, outbox>>

\* POST /api/logout
Logout(c) ==
  /\ IsIdle(c)
  /\ session' = [session EXCEPT ![c] = NoSession]
  /\ Respond(c, "logout", 200, Msg("Logged out successfully"))
  /\ UNCHANGED <<users, lanes, bids, userSeq, laneSeq, bidSeq, now, pending, outbox>>

\* GET /api/me
Me(c) ==
  /\ IsIdle(c)
  /\ IF session[c].userId = 0
     THEN /\ Respond(c, "me", 401, Msg("Not authenticated"))
          /\ UNCHANGED session
     ELSE LET user == getUser(session[c].userId)
          IN IF user = undefined
             THEN /\ session' = [session EXCEPT ![c] = NoSession]
                  /\ Respond(c, "me", 401, Msg("User not found"))
             ELSE /\ Respond(c, "me", 200, PublicUser(user[1]))
                  /\ UNCHANGED session
  /\ UNCHANGED <<users, lanes, bids, userSeq, laneSeq, bidSeq, now, pending, outbox>>

\* GET /api/users
GetUsers(c) ==
  /\ IsIdle(c)
  /\ IF ~requireAdmin(c)
     THEN Respond(c, "users", 403, Msg("Forbidden: Admin access required"))
     ELSE Respond(c, "users", 200, Rows(getAllUsers))
  /\ UNCHANGED <<users, lanes, bids, userSeq, laneSeq, bidSeq, now, session, pending, outbox>>

\* ------------------------------------------------------------ lane routes
\* GET /api/lanes
GetLanes(c, filters) ==
  /\ IsIdle(c)
  /\ IF ~requireAuth(c)
     THEN Respond(c, "lanes", 401, Msg("Unauthorized"))
     ELSE IF getLanesThrows(filters)
     THEN Respond(c, "lanes", 500, Msg("Server error"))
     ELSE \E result \in getLanes(filters) : Respond(c, "lanes", 200, Rows(result))
  /\ UNCHANGED <<users, lanes, bids, userSeq, laneSeq, bidSeq, now, session, pending, outbox>>

\* GET /api/lanes/:id
GetLaneById(c, id) ==
  /\ IsIdle(c)
  /\ LET laneId == parseInt(id)
     IN IF ~requireAuth(c)
        THEN Respond(c, "lane", 401, Msg("Unauthorized"))
        ELSE IF isNaN(laneId)
        THEN Respond(c, "lane", 400, Msg("Invalid lane ID"))
        ELSE IF getLane(laneId.val) = undefined
        THEN Respond(c, "lane", 404, Msg("Lane not found"))
        ELSE Respond(c, "lane", 200, WithBids(getLane(laneId.val)[1]))
  /\ UNCHANGED <<users, lanes, bids, userSeq, laneSeq, bidSeq, now, session, pending, outbox>>

\* GET /api/lanes/:id statement by statement, for the behaviours in which
\* requests interleave: up to the await of getLane ...
GetLaneRead(c, id) ==
  /\ IsIdle(c)
  /\ LET laneId == parseInt(id)
     IN IF ~requireAuth(c)
        THEN /\ Respond(c, "lane", 401, Msg("Unauthorized"))
             /\ UNCHANGED pending
        ELSE IF isNaN(laneId)
        THEN /\ Respond(c, "lane", 400, Msg("Invalid lane ID"))
             /\ UNCHANGED pending
        ELSE IF getLane(laneId.val) = undefined
        THEN /\ Respond(c, "lane", 404, Msg("Lane not found"))
             /\ UNCHANGED pending
        ELSE /\ pending' = [pending EXCEPT ![c] =
                    [op |-> "lane-min", lane |-> getLane(laneId.val)[1]]]
             /\ UNCHANGED resp
  /\ UNCHANGED <<users, lanes, bids, userSeq, laneSeq, bidSeq, now, session, outbox>>

\* ... the await of getLowestBidForLane ...
GetLaneMin(c) ==
  /\ Awaits(c, "lane-min")
  /\ pending' = [pending EXCEPT ![c] =
         [op |-> "lane-count", lane |-> pending[c].lane,
          minBid |-> getLowestBidForLane(pending[c].lane.id)]]
  /\ UNCHANGED <<users, lanes, bids, userSeq, laneSeq, bidSeq, now, session, resp, outbox>>

\* ... and the await of getBidCountForLane, then res.json
GetLaneCount(c) ==
  /\ Awaits(c, "lane-count")
  /\ LET w == WithBids(pending[c].lane)
     IN Respond(c, "lane", 200,
          [w EXCEPT !.minBid = pending[c].minBid,
                    !.bidCount = getBidCountForLane(pending[c].lane.id)])
  /\ pending' = [pending EXCEPT ![c] = Idle]
  /\ UNCHANGED <<users, lanes, bids, userSeq, laneSeq, bidSeq, now, session, outbox>>

\* GET /api/lanes/:id/min-bid
GetMinBid(c, id) ==
  /\ IsIdle(c)
  /\ LET laneId == parseInt(id)
     IN IF ~requireAuth(c)
        THEN Respond(c, "min-bid", 401, Msg("Unauthorized"))
        ELSE IF isNaN(laneId)
        THEN Respond(c, "min-bid", 400, Msg("Invalid lane ID"))
        ELSE IF getLane(laneId.val) = undefined
        THEN Respond(c, "min-bid", 404, Msg("Lane not found"))
        ELSE Respond(c, "min-bid", 200, [minBid |-> getLowestBidForLane(laneId.val)])
  /\ UNCHANGED <<users, lanes, bids, userSeq, laneSeq, bidSeq, now, session, pending, outbox>>

\* insertLaneSchema
ValidLaneBody(body) ==
  /\ \A f \in {"bidName", "vehicleType", "loadingLocation", "unloadingLocation",
                "validFrom", "validUntil", "createdBy"} : Has(body, f)
  /\ body.vehicleType \in VehicleTypes
  /\ Has(body, "status") => body.status \in Statuses

\* insertLaneSchema.partial()
ValidLaneUpdate(body) ==
  /\ Has(body, "vehicleType") => body.vehicleType \in VehicleTypes
  /\ Has(body, "status") => body.status \in Statuses

\* { ...req.body, createdBy: req.session.userId }
WithCreatedBy(body, userId) ==
  [f \in DOMAIN body \cup {"createdBy"} |->
     IF f = "createdBy" THEN userId ELSE body[f]]

\* PgStorage.createLane: the row inserted for a body, status defaulting to
\* 'active'
createLane(body, id, createdAt) ==
  [id |-> id, bidName |-> body.bidName,
   status |-> IF Has(body, "status") THEN body.status ELSE "active",
   vehicleType |-> body.vehicleType, loadingLocation |-> body.loadingLocation,
   unloadingLocation |-> body.unloadingLocation, validFrom |-> body.validFrom,
   validUntil |-> body.validUntil, createdAt |-> createdAt,
   createdBy |-> body.createdBy]

forwarderEmails_everyone(us) == { u.id : u \in us }

\* users.filter(user => user.role === 'forwarder').map(user => user.email);
\* the address of a user is held as the user's id
forwarderEmails(us) == { u.id : u \in { x \in us : x.role = "forwarder" } }

\* await transporter.sendMail(mailOptions) resolves or rejects
SendOutcomes == {"sent", "threw"}

\* the notification of a created lane, with each way the transport can end;
\* none is attempted when there is no address
sendLaneNotification(emails, lane) ==
  IF emails = {} THEN { NoMail }
  ELSE { [to |-> emails, laneId |-> lane.id, outcome |-> o] : o \in SendOutcomes }

\* POST /api/lanes: the lane is inserted, then the forwarders are notified
\* inside a try/catch of its own, then the lane is returned
PostLane(c, body) ==
  /\ IsIdle(c)
  /\ LET data == WithCreatedBy(body, session[c].userId)
         lane == createLane(data, laneSeq + 1, now + 1)
     IN IF ~requireAdmin(c)
        THEN /\ Respond(c, "create-lane", 403, Msg("Forbidden: Admin access required"))
             /\ UNCHANGED <<lanes, laneSeq, now, outbox>>
        ELSE IF ~ValidLaneBody(data)
        THEN /\ Respond(c, "create-lane", 400, Msg("validation"))
             /\ UNCHANGED <<lanes, laneSeq, now, outbox>>
        ELSE /\ now' = now + 1
             /\ laneSeq' = laneSeq + 1
             /\ lanes' = lanes \cup {lane}
             /\ outbox' \in sendLaneNotification(forwarderEmails(getAllUsers), lane)
             /\ Respond(c, "create-lane", 201, lane)
  /\ UNCHANGED <<users, bids, userSeq, bidSeq, session, pending>>

\* PUT /api/lanes/:id up to the await of getLane; the body is validated
\* right after it, from the request alone
PutLane(c, id, body) ==
  /\ IsIdle(c)
  /\ LET laneId == parseInt(id)
     IN IF ~requireAdmin(c)
        THEN /\ Respond(c, "update-lane", 403, Msg("Forbidden: Admin access required"))
             /\ UNCHANGED pending
        ELSE IF isNaN(laneId)
        THEN /\ Respond(c, "update-lane", 400, Msg("Invalid lane ID"))
             /\ UNCHANGED pending
        ELSE IF getLane(laneId.val) = undefined
        THEN /\ Respond(c, "update-lane", 404, Msg("Lane not found"))
             /\ UNCHANGED pending
        ELSE IF ~ValidLaneUpdate(body)
        THEN /\ Respond(c, "update-lane", 400, Msg("validation"))
             /\ UNCHANGED pending
        ELSE /\ pending' = [pending EXCEPT ![c] =
                    [op |-> "update-lane", laneId |-> laneId.val, body |-> body]]
             /\ UNCHANGED resp
  /\ UNCHANGED <<users, lanes, bids, userSeq, laneSeq, bidSeq, now, session, outbox>>

\* the keys of insertLaneSchema, which are the columns updateLane copies; the
\* partial schema drops every other key of the body
UpdatableFields ==
  {"bidName", "status", "vehicleType", "loadingLocation", "unloadingLocation",
   "validFrom", "validUntil", "createdBy"}

updateLane_anyKey(lane, body) ==
  [f \in DOMAIN lane |-> IF f \in DOMAIN body THEN body[f] ELSE lane[f]]

\* PgStorage.updateLane: the row with the fields of the update that are
\* present
updateLane(lane, body) ==
  [f \in DOMAIN lane |->
     IF f \in DOMAIN body \cap UpdatableFields THEN body[f] ELSE lane[f]]

\* ... and from storage.updateLane on
PutLaneUpdate(c) ==
  /\ Awaits(c, "update-lane")
  /\ LET laneId == pending[c].laneId
         body == pending[c].body
         row == getLane(laneId)
     IN IF row = undefined
        THEN /\ Respond(c, "update-lane", 404, Msg("Lane not found"))
             /\ UNCHANGED lanes
        ELSE IF getUser(updateLane(row[1], body).createdBy) = undefined
        THEN /\ Respond(c, "update-lane", 500, Msg("Server error"))
             /\ UNCHANGED lanes
        ELSE /\ lanes' = (lanes \ {row[1]}) \cup {updateLane(row[1], body)}
             /\ Respond(c, "update-lane", 200, updateLane(row[1], body))
  /\ pending' = [pending EXCEPT ![c] = Idle]
  /\ UNCHANGED <<users, bids, userSeq, laneSeq, bidSeq, now, session, outbox>>

deleteBidsOfLane_none(laneId) == bids

\* db.delete(bids).where(eq(bids.laneId, id)): the rows that remain
deleteBidsOfLane(laneId) == { b \in bids : b.laneId # laneId }

\* DELETE /api/lanes/:id up to the first statement of PgStorage.deleteLane:
\* delete the bids of the lane; the request in flight remembers the rows it
\* has removed
DeleteLane(c, id) ==
  /\ IsIdle(c)
  /\ LET laneId == parseInt(id)
     IN IF ~requireAdmin(c)
        THEN /\ Respond(c, "delete-lane", 403, Msg("Forbidden: Admin access required"))
             /\ UNCHANGED <<bids, pending>>
        ELSE IF isNaN(laneId)
        THEN /\ Respond(c, "delete-lane", 400, Msg("Invalid lane ID"))
             /\ UNCHANGED <<bids, pending>>
        ELSE /\ bids' = deleteBidsOfLane(laneId.val)
             /\ pending' = [pending EXCEPT ![c] =
                    [op |-> "delete-lane", laneId |-> laneId.val,
                     deleted |-> bids \ deleteBidsOfLane(laneId.val)]]
             /\ UNCHANGED resp
  /\ UNCHANGED <<users, lanes, userSeq, laneSeq, bidSeq, now, session, outbox>>

LaneReferenced_unchecked(laneId) == FALSE

\* lane_id INTEGER NOT NULL REFERENCES lanes(id): a bid references the lane
LaneReferenced(laneId) == \E b \in bids : b.laneId = laneId

\* ... and its second statement: delete the lane, which raises while a bid
\* still references it
DeleteLaneRow(c) ==
  /\ Awaits(c, "delete-lane")
  /\ LET laneId == pending[c].laneId
     IN IF LaneReferenced(laneId)
        THEN /\ Respond(c, "delete-lane", 500, Msg("Server error"))
             /\ UNCHANGED lanes
        ELSE IF getLane(laneId) = undefined
        THEN /\ Respond(c, "delete-lane", 404, Msg("Lane not found"))
             /\ UNCHANGED lanes
        ELSE /\ lanes' = { l \in lanes : l.id # laneId }
             /\ Respond(c, "delete-lane", 200, Msg("Lane deleted successfully"))
  /\ pending' = [pending EXCEPT ![c] = Idle]
  /\ UNCHANGED <<users, bids, userSeq, laneSeq, bidSeq, now, session, outbox>>

\* ------------------------------------------------------------- bid routes
\* GET /api/lanes/:id/bids
GetLaneBids(c, id) ==
  /\ IsIdle(c)
  /\ LET laneId == parseInt(id)
     IN IF ~requireAuth(c)
        THEN Respond(c, "lane-bids", 401, Msg("Unauthorized"))
        ELSE IF isNaN(laneId)
        THEN Respond(c, "lane-bids", 400, Msg("Invalid lane ID"))
        ELSE IF getLane(laneId.val) = undefined
        THEN Respond(c, "lane-bids", 404, Msg("Lane not found"))
        ELSE IF session[c].role # "admin"
        THEN Respond(c, "lane-bids", 403, Msg("Forbidden: Admin access required"))
        ELSE \E result \in getBidsByLane(laneId.val) :
               Respond(c, "lane-bids", 200, Rows(result))
  /\ UNCHANGED <<users, lanes, bids, userSeq, laneSeq, bidSeq, now, session, pending, outbox>>

\* the lane fields GET /api/user/bids copies into each bid, minBid included
LaneInfo(lane) ==
  [id |-> lane.id, bidName |-> lane.bidName, status |-> lane.status,
   vehicleType |-> lane.vehicleType, loadingLocation |-> lane.loadingLocation,
   unloadingLocation |-> lane.unloadingLocation, validFrom |-> lane.validFrom,
   validUntil |-> lane.validUntil, minBid |-> getLowestBidForLane(lane.id)]

\* { ...bid, lane: { ... } }
WithLane(b, lane) ==
  LET w == WithUser(b)
  IN [f \in DOMAIN w \cup {"lane"} |-> IF f = "lane" THEN LaneInfo(lane) ELSE w[f]]

UserBidsOfLanes_allUsers(userId) ==
  { WithLane(b, getLane(b.laneId)[1]) :
      b \in { x \in bids : getLane(x.laneId) # undefined } }

\* the bids of the user on the lanes getLanes returns, each with its lane
UserBidsOfLanes(userId) ==
  { WithLane(b, getLane(b.laneId)[1]) :
      b \in { x \in bids : x.userId = userId /\ getLane(x.laneId) # undefined } }

\* GET /api/user/bids: the bids are collected lane by lane and then sorted
\* by createdAt, most recent first
GetUserBids(c) ==
  /\ IsIdle(c)
  /\ IF ~requireAuth(c)
     THEN Respond(c, "user-bids", 401, Msg("Unauthorized"))
     ELSE \E result \in SortedDesc(UserBidsOfLanes(session[c].userId), "createdAt") :
            Respond(c, "user-bids", 200, Rows(result))
  /\ UNCHANGED <<users, lanes, bids, userSeq, laneSeq, bidSeq, now, session, pending, outbox>>

ValidBidBody_nonnegative(body) ==
  /\ Has(body, "amount")
  /\ body.amount.type = "number"
  /\ body.amount.mills >= 0

\* z.object({ amount: z.number().positive(), comment: z.string().optional() })
ValidBidBody(body) ==
  /\ Has(body, "amount")
  /\ body.amount.type = "number"
  /\ body.amount.mills > 0

LaneIsOpen_notArchivedOnly(lane) == TRUE

\* the lane statuses a bid is accepted on
LaneIsOpen(lane) == lane.status = "active" \/ lane.status = "ending_soon"

MayBid_admins(c) == session[c].role \in {"forwarder", "admin"}

\* the caller may place bids
MayBid(c) == session[c].role = "forwarder"

\* POST /api/lanes/:id/bids up to the await of getLane; the checks that
\* follow it use the lane row read here, the session and the body
PostBid(c, id, body) ==
  /\ IsIdle(c)
  /\ LET laneId == parseInt(id)
     IN IF ~requireAuth(c)
        THEN /\ Respond(c, "bid", 401, Msg("Unauthorized"))
             /\ UNCHANGED pending
        ELSE IF isNaN(laneId)
        THEN /\ Respond(c, "bid", 400, Msg("Invalid lane ID"))
             /\ UNCHANGED pending
        ELSE IF getLane(laneId.val) = undefined
        THEN /\ Respond(c, "bid", 404, Msg("Lane not found"))
             /\ UNCHANGED pending
        ELSE IF ~MayBid(c)
        THEN /\ Respond(c, "bid", 403, Msg("Forbidden: Only freight forwarders can submit bids"))
             /\ UNCHANGED pending
        ELSE IF ~ValidBidBody(body)
        THEN /\ Respond(c, "bid", 400, Msg("validation"))
             /\ UNCHANGED pending
        ELSE IF ~LaneIsOpen(getLane(laneId.val)[1])
        THEN /\ Respond(c, "bid", 400, Msg("Cannot bid on inactive lanes"))
             /\ UNCHANGED pending
        ELSE /\ pending' = [pending EXCEPT ![c] =
                    [op |-> "bid", laneId |-> laneId.val, body |-> body]]
             /\ UNCHANGED resp
  /\ UNCHANGED <<users, lanes, bids, userSeq, laneSeq, bidSeq, now, session, outbox>>

\* PgStorage.createBid: the row inserted; amount.toString() is converted to
\* numeric(10,2), an absent comment is NULL
createBid(laneId, userId, body, id, createdAt) ==
  [id |-> id, laneId |-> laneId, userId |-> userId,
   amount |-> NumericRound(body.amount.mills),
   comment |-> IF Has(body, "comment") THEN body.comment ELSE "NULL",
   createdAt |-> createdAt]

insertBid_onlyImprovements(row) ==
  IF \E b \in bids : b.laneId = row.laneId /\ b.amount <= row.amount
  THEN bids ELSE bids \cup {row}

insertBid_onePerForwarder(row) ==
  { b \in bids : ~(b.laneId = row.laneId /\ b.userId = row.userId) } \cup {row}

\* db.insert(bids).values(bid): bids has no unique key but its id
insertBid(row) == bids \cup {row}

\* ... and from storage.createBid on: the insert takes the next serial value
\* and raises when the lane or the user is gone or the amount overflows
PostBidInsert(c) ==
  /\ Awaits(c, "bid")
  /\ LET laneId == pending[c].laneId
         body == pending[c].body
     IN /\ now' = now + 1
        /\ bidSeq' = bidSeq + 1
        /\ IF \/ getLane(laneId) = undefined
              \/ getUser(session[c].userId) = undefined
              \/ NumericOverflow(NumericRound(body.amount.mills))
           THEN /\ Respond(c, "bid", 500, Msg("Server error"))
                /\ UNCHANGED bids
           ELSE /\ bids' =
                     insertBid(createBid(laneId, session[c].userId, body, bidSeq + 1, now + 1))
                /\ Respond(c, "bid", 201,
                     BidRow(createBid(laneId, session[c].userId, body, bidSeq + 1, now + 1)))
  /\ pending' = [pending EXCEPT ![c] = Idle]
  /\ UNCHANGED <<users, lanes, userSeq, laneSeq, session, outbox>>

\* ------------------------------------------------------------- behaviours
\* the response is written out and the notification leaves the transport
Deliver ==
  /\ resp.op # ""
  /\ resp' = NoResponse
  /\ outbox' = NoMail
  /\ UNCHANGED <<users, lanes, bids, userSeq, laneSeq, bidSeq, now, session, pending>>

\* no request is in flight
AllIdle == \A c \in Callers : pending[c].op = "idle"

\* the caller of the behaviours in which requests are served one at a time
Client == {"c1"}

\* the query strings of GET /api/lanes
NoFilter ==
  [status |-> undefined, vehicleType |-> undefined,
   loadingLocation |-> undefined, unloadingLocation |-> undefined]

LaneFilters ==
  { NoFilter,
    [NoFilter EXCEPT !.status = Some("archived")],
    [NoFilter EXCEPT !.status = Some("open")] }

\* the whole API, one request at a time
Next ==
  \/ \E c \in Client, body \in RegisterBodies :
       AllIdle /\ userSeq < MaxUsers /\ Register(c, body)
  \/ \E c \in Client : RegisterInsert(c)
  \/ \E c \in Client, body \in LoginBodies : AllIdle /\ Login(c, body)
  \/ \E c \in Client : AllIdle /\ Logout(c)
  \/ \E c \in Client : AllIdle /\ Me(c)
  \/ \E c \in Client : AllIdle /\ GetUsers(c)
  \/ \E c \in Client, filters \in LaneFilters : AllIdle /\ GetLanes(c, filters)
  \/ \E c \in Client, id \in LaneIdParams(MaxLanes) : AllIdle /\ GetLaneById(c, id)
  \/ \E c \in Client, id \in LaneIdParams(MaxLanes) : AllIdle /\ GetMinBid(c, id)
  \/ \E c \in Client, body \in LaneBodies :
       AllIdle /\ laneSeq < MaxLanes /\ PostLane(c, body)
  \/ \E c \in Client, id \in LaneIdParams(MaxLanes), body \in LaneUpdates :
       AllIdle /\ PutLane(c, id, body)
  \/ \E c \in Client : PutLaneUpdate(c)
  \/ \E c \in Client, id \in LaneIdParams(MaxLanes) : AllIdle /\ DeleteLane(c, id)
  \/ \E c \in Client : DeleteLaneRow(c)
  \/ \E c \in Client, id \in LaneIdParams(MaxLanes) : AllIdle /\ GetLaneBids(c, id)
  \/ \E c \in Client, id \in LaneIdParams(MaxLanes), body \in BidBodies :
       AllIdle /\ bidSeq < MaxBids /\ PostBid(c, id, body)
  \/ \E c \in Client : PostBidInsert(c)
  \/ Deliver

Spec == Init /\ [][Next]_vars

\* POST /api/login bodies of the seeded admin and forwarder
SeedLogins ==
  { [username |-> "admin", password |-> "admin123"],
    [username |-> "user", password |-> "user123"] }

\* lanes, bids of several amounts and the aggregation over them
NextAgg ==
  \/ \E c \in Client, body \in SeedLogins : AllIdle /\ Login(c, body)
  \/ \E c \in Client, body \in LaneBodies :
       AllIdle /\ laneSeq < AggLanes /\ PostLane(c, body)
  \/ \E c \in Client, id \in LaneIdParams(AggLanes), body \in AggBidBodies :
       AllIdle /\ bidSeq < AggBids /\ PostBid(c, id, body)
  \/ \E c \in Client : PostBidInsert(c)
  \/ \E c \in Client, id \in LaneIdParams(AggLanes) : AllIdle /\ DeleteLane(c, id)
  \/ \E c \in Client : DeleteLaneRow(c)
  \/ \E c \in Client : AllIdle /\ GetLanes(c, NoFilter)
  \/ \E c \in Client, id \in LaneIdParams(AggLanes) : AllIdle /\ GetLaneById(c, id)
  \/ \E c \in Client, id \in LaneIdParams(AggLanes) : AllIdle /\ GetMinBid(c, id)
  \/ \E c \in Client, id \in LaneIdParams(AggLanes) : AllIdle /\ GetLaneBids(c, id)
  \/ Deliver

SpecAgg == Init /\ [][NextAgg]_vars

\* POST /api/lanes bodies that differ in status, vehicle type and locations
FilterLaneBodies ==
  { [bidName |-> "HAN-MUC", vehicleType |-> "40t", loadingLocation |-> Hanover,
     unloadingLocation |-> Munich, validFrom |-> 1, validUntil |-> 2],
    [bidName |-> "ULM-HAN", vehicleType |-> "van", status |-> "archived",
     loadingLocation |-> ulm, unloadingLocation |-> Hanover,
     validFrom |-> 1, validUntil |-> 2],
    [bidName |-> "MUC-ULM", vehicleType |-> "40t", status |-> "archived",
     loadingLocation |-> Munich, unloadingLocation |-> ulm,
     validFrom |-> 1, validUntil |-> 2] }

\* the query strings of GET /api/lanes: status and vehicleType filters in
\* every combination, location filters in every combination, and both kinds
\* together
FilterQueries ==
  [status : {undefined, Some("all"), Some("active"), Some("archived")},
   vehicleType : {undefined, Some("all"), Some("40t"), Some("van")},
   loadingLocation : {undefined}, unloadingLocation : {undefined}]
  \cup
  [status : {undefined}, vehicleType : {undefined},
   loadingLocation : {undefined, Some(<<"a", "l", "l">>), Some(<<"h", "a", "n">>),
                      Some(<<"H", "a", "n">>)},
   unloadingLocation : {undefined, Some(<<"u", "n">>), Some(<<"U", "L">>)}]
  \cup
  [status : {Some("archived")}, vehicleType : {undefined, Some("40t")},
   loadingLocation : {undefined, Some(<<"M", "u">>)},
   unloadingLocation : {undefined, Some(<<"l", "m">>)}]

\* lanes of several kinds and the filtered listing of them
NextFilter ==
  \/ \E c \in Client, body \in SeedLogins : AllIdle /\ Login(c, body)
  \/ \E c \in Client, body \in FilterLaneBodies :
       AllIdle /\ laneSeq < FilterLanes /\ PostLane(c, body)
  \/ \E c \in Client, filters \in FilterQueries : AllIdle /\ GetLanes(c, filters)
  \/ Deliver

SpecFilter == Init /\ [][NextFilter]_vars

\* POST /api/register body of a second forwarder, and the logins of all three
RankRegisterBodies ==
  { [username |-> "acme", password |-> "pw", companyName |-> "Acme", role |-> "admin"] }

RankLogins == SeedLogins \cup { [username |-> "acme", password |-> "pw"] }

\* POST /api/lanes/:id/bids bodies with the amounts 500, 300 and 450
RankBidBodies ==
  { [amount |-> Num(500000)],
    [amount |-> Num(300000), comment |-> "best offer"],
    [amount |-> Num(450000)] }

\* two forwarders bid on the lanes; the bids are ranked and listed
NextRank ==
  \/ \E c \in Client, body \in RankLogins : AllIdle /\ Login(c, body)
  \/ \E c \in Client, body \in RankRegisterBodies :
       AllIdle /\ userSeq < MaxUsers /\ Register(c, body)
  \/ \E c \in Client : RegisterInsert(c)
  \/ \E c \in Client, body \in LaneBodies :
       AllIdle /\ laneSeq < RankLanes /\ PostLane(c, body)
  \/ \E c \in Client, id \in LaneIdParams(RankLanes), body \in RankBidBodies :
       AllIdle /\ bidSeq < RankBids /\ PostBid(c, id, body)
  \/ \E c \in Client : PostBidInsert(c)
  \/ \E c \in Client, id \in LaneIdParams(RankLanes) : AllIdle /\ GetLaneBids(c, id)
  \/ \E c \in Client, id \in LaneIdParams(RankLanes) : AllIdle /\ GetLaneById(c, id)
  \/ \E c \in Client : AllIdle /\ GetUserBids(c)
  \/ Deliver

SpecRank == Init /\ [][NextRank]_vars

\* two sessions whose requests interleave at the awaits of the handlers: an
\* admin creates and deletes lanes while forwarders bid
NextRace ==
  \/ \E c \in Callers, body \in SeedLogins : Login(c, body)
  \/ \E c \in Callers, body \in LaneBodies : laneSeq < RaceLanes /\ PostLane(c, body)
  \/ \E c \in Callers, id \in LaneIdParams(RaceLanes), body \in AggBidBodies :
       bidSeq < RaceBids /\ PostBid(c, id, body)
  \/ \E c \in Callers : PostBidInsert(c)
  \/ \E c \in Callers, id \in LaneIdParams(RaceLanes) : DeleteLane(c, id)
  \/ \E c \in Callers : DeleteLaneRow(c)
  \/ Deliver

SpecRace == Init /\ [][NextRace]_vars

\* the :id path parameters with one that starts with a digit and is no number
MixedIdParams(n) == LaneIdParams(n) \cup { <<"1", "x">> }

\* the six endpoints that take a lane id, one request at a time
NextIds ==
  \/ \E c \in Client, body \in SeedLogins : AllIdle /\ Login(c, body)
  \/ \E c \in Client, body \in LaneBodies :
       AllIdle /\ laneSeq < MaxLanes /\ PostLane(c, body)
  \/ \E c \in Client, id \in MixedIdParams(MaxLanes) : AllIdle /\ GetLaneById(c, id)
  \/ \E c \in Client, id \in MixedIdParams(MaxLanes) : AllIdle /\ GetMinBid(c, id)
  \/ \E c \in Client, id \in MixedIdParams(MaxLanes), body \in LaneUpdates :
       AllIdle /\ PutLane(c, id, body)
  \/ \E c \in Client : PutLaneUpdate(c)
  \/ \E c \in Client, id \in MixedIdParams(MaxLanes) : AllIdle /\ DeleteLane(c, id)
  \/ \E c \in Client : DeleteLaneRow(c)
  \/ \E c \in Client, id \in MixedIdParams(MaxLanes) : AllIdle /\ GetLaneBids(c, id)
  \/ \E c \in Client, id \in MixedIdParams(MaxLanes), body \in BidBodies :
       AllIdle /\ bidSeq < MaxBids /\ PostBid(c, id, body)
  \/ \E c \in Client : PostBidInsert(c)
  \/ Deliver

SpecIds == Init /\ [][NextIds]_vars

\* two admin sessions register users while their requests interleave
NextReg ==
  \/ \E c \in Callers, body \in LoginBodies : Login(c, body)
  \/ \E c \in Callers, body \in RegisterBodies : userSeq < RegUsers /\ Register(c, body)
  \/ \E c \in Callers : RegisterInsert(c)
  \/ Deliver

SpecReg == Init /\ [][NextReg]_vars

\* PUT /api/lanes/:id bodies that archive, reopen and reassign a lane
ConcUpdates ==
  { [status |-> "archived"],
    [status |-> "active"],
    [createdBy |-> 9] }

\* POST /api/lanes/:id/bids bodies with the amounts 9.00 and 10.00
ConcBidBodies ==
  { [amount |-> Num(9000)],
    [amount |-> Num(10000), comment |-> "best offer"] }

\* two sessions whose requests interleave at the awaits of the handlers: an
\* admin creates, updates and deletes lanes while forwarders bid
NextConc ==
  \/ \E c \in Callers, body \in SeedLogins : Login(c, body)
  \/ \E c \in Callers, body \in LaneBodies : laneSeq < ConcLanes /\ PostLane(c, body)
  \/ \E c \in Callers, id \in LaneIdParams(ConcLanes), body \in ConcUpdates :
       PutLane(c, id, body)
  \/ \E c \in Callers : PutLaneUpdate(c)
  \/ \E c \in Callers, id \in LaneIdParams(ConcLanes) : DeleteLane(c, id)
  \/ \E c \in Callers : DeleteLaneRow(c)
  \/ \E c \in Callers, id \in LaneIdParams(ConcLanes), body \in ConcBidBodies :
       bidSeq < ConcBids /\ PostBid(c, id, body)
  \/ \E c \in Callers : PostBidInsert(c)
  \/ Deliver

SpecConc == Init /\ [][NextConc]_vars

\* two sessions: lanes are read query by query while bids are submitted and
\* lanes deleted
NextRead ==
  \/ \E c \in Callers, body \in SeedLogins : Login(c, body)
  \/ \E c \in Callers, body \in LaneBodies : laneSeq < ReadLanes /\ PostLane(c, body)
  \/ \E c \in Callers, id \in LaneIdParams(ReadLanes), body \in ConcBidBodies :
       bidSeq < ReadBids /\ PostBid(c, id, body)
  \/ \E c \in Callers : PostBidInsert(c)
  \/ \E c \in Callers, id \in LaneIdParams(ReadLanes) : DeleteLane(c, id)
  \/ \E c \in Callers : DeleteLaneRow(c)
  \/ \E c \in Callers, id \in LaneIdParams(ReadLanes) : GetLaneRead(c, id)
  \/ \E c \in Callers : GetLaneMin(c)
  \/ \E c \in Callers : GetLaneCount(c)
  \/ Deliver

SpecRead == Init /\ [][NextRead]_vars

\* PUT /api/lanes/:id bodies: one field, two fields, and a field together
\* with keys that are no part of the schema
EditUpdates ==
  { [status |-> "archived"],
    [bidName |-> "MUC-HAN", vehicleType |-> "van"],
    [id |-> 7, createdAt |-> 0, unloadingLocation |-> ulm] }

\* lanes are created and updated and receive bids, one request at a time
NextEdit ==
  \/ \E c \in Client, body \in SeedLogins : AllIdle /\ Login(c, body)
  \/ \E c \in Client, body \in LaneBodies :
       AllIdle /\ laneSeq < EditLanes /\ PostLane(c, body)
  \/ \E c \in Client, id \in LaneIdParams(EditLanes), body \in EditUpdates :
       AllIdle /\ PutLane(c, id, body)
  \/ \E c \in Client : PutLaneUpdate(c)
  \/ \E c \in Client, id \in LaneIdParams(EditLanes), body \in ConcBidBodies :
       AllIdle /\ bidSeq < EditBids /\ PostBid(c, id, body)
  \/ \E c \in Client : PostBidInsert(c)
  \/ Deliver

SpecEdit == Init /\ [][NextEdit]_vars

\* ----------------------------------------------------------------- claims
AdminCount == Cardinality({ u \in users : u.role = "admin" })

\* C1: a POST /api/register answered with 201 creates one user whose stored
\* role is "forwarder" and returns that user with role "forwarder", whatever
\* role the body asked for; no step increases the number of admins.
C1_RegisterForcesForwarder ==
  [][ /\ (resp'.op = "register" /\ resp'.status = 201) =>
           /\ resp'.body.role = "forwarder"
           /\ Cardinality(users' \ users) = 1
           /\ \A u \in users' \ users :
                u.role = "forwarder" /\ u.id = resp'.body.id
      /\ AdminCount' <= AdminCount ]_vars

\* the body asked for role "admin" (company "Acme A") and was answered 201
C1_Witness ==
  /\ resp.op = "register" /\ resp.status = 201
  /\ resp.body.companyName = "Acme A" /\ resp.body.role = "forwarder"
  /\ \E u \in users : u.id = resp.body.id /\ u.role = "forwarder"

\* the operations reserved to admins, by the op of their response and by the
\* op of their request in flight
AdminOps == {"register", "create-lane", "update-lane", "delete-lane", "users", "lane-bids"}
AdminPending == {"register", "update-lane", "delete-lane"}

\* this step belongs to a request of caller c for an admin operation
StepOfAdminOp(c) ==
  \/ resp'.caller = c /\ resp'.op \in AdminOps
  \/ pending[c].op \in AdminPending
  \/ pending'[c].op \in AdminPending

Refused(status) == status >= 400

\* C2: a step of register, lane create/update/delete, GET /users or
\* GET /lanes/:id/bids made for a caller who has no session or whose role is
\* not admin answers with a refusal and leaves users, lanes and bids as
\* they were; so these operations are performed for admins only.
C2_AdminOnly ==
  [][ \A c \in Callers :
        (StepOfAdminOp(c) /\ ~(session[c].userId # 0 /\ session[c].role = "admin")) =>
          /\ resp'.caller = c /\ resp'.op \in AdminOps /\ Refused(resp'.status)
          /\ pending'[c].op = "idle"
          /\ users' = users /\ lanes' = lanes /\ bids' = bids ]_vars

\* a forwarder's DELETE was refused while the lane and a bid on it exist
C2_Witness ==
  /\ resp.op = "delete-lane" /\ resp.status = 403
  /\ session[resp.caller].role = "forwarder"
  /\ lanes # {} /\ bids # {}

\* this step belongs to a bid submission of caller c
StepOfBid(c) ==
  \/ resp'.caller = c /\ resp'.op = "bid"
  \/ pending[c].op = "bid"
  \/ pending'[c].op = "bid"

\* C3: a step of POST /lanes/:id/bids for a caller whose role is not
\* forwarder answers with a refusal and leaves bids as it was; a step that
\* adds a bid is made for a forwarder and adds that forwarder's bid.
C3_ForwarderOnly ==
  [][ /\ \A c \in Callers :
          (StepOfBid(c) /\ session[c].role # "forwarder") =>
            /\ resp'.caller = c /\ resp'.op = "bid" /\ Refused(resp'.status)
            /\ pending'[c].op = "idle"
            /\ bids' = bids
      /\ \A b \in bids' \ bids :
          \E c \in Callers : /\ pending[c].op = "bid"
                             /\ session[c].role = "forwarder"
                             /\ b.userId = session[c].userId ]_vars

\* an admin's bid with a valid amount on an open lane was refused with 403
C3_Witness ==
  /\ resp.op = "bid" /\ resp.status = 403
  /\ session[resp.caller].role = "admin"
  /\ \E l \in lanes : l.status = "active"

\* the amount of the body is zero, negative or no number
NotPositive(body) ==
  \/ ~Has(body, "amount")
  \/ body.amount.type # "number"
  \/ body.amount.mills <= 0

LaneOfParam(id) == getLane(parseInt(id).val)

\* C4: POST /lanes/:id/bids by a forwarder on an existing lane with an
\* amount that is zero, negative or no number answers 400 (validation) and
\* leaves bids as it was.
C4_AmountMustBePositive ==
  [][ \A c \in Callers, id \in LaneIdParams(MaxLanes), body \in BidBodies :
        ( /\ PostBid(c, id, body)
          /\ session[c].userId # 0 /\ session[c].role = "forwarder"
          /\ ~isNaN(parseInt(id)) /\ LaneOfParam(id) # undefined
          /\ NotPositive(body) ) =>
          /\ resp'.caller = c /\ resp'.op = "bid"
          /\ resp'.status = 400 /\ resp'.body = Msg("validation")
          /\ pending'[c].op = "idle"
          /\ bids' = bids ]_vars

\* a forwarder's bid was refused as invalid on an open lane that has a bid
C4_Witness ==
  /\ resp.op = "bid" /\ resp.status = 400 /\ resp.body = Msg("validation")
  /\ session[resp.caller].role = "forwarder"
  /\ \E l \in lanes : l.status = "active" /\ \E b \in bids : b.laneId = l.id

\* C5: a bid on an archived lane is refused and adds no bid, whoever the
\* caller and whatever the amount; a forwarder's bid with a positive amount
\* on an active or ending_soon lane is accepted: it is inserted and answered
\* 201 (requests served one at a time).
C5_ArchivedRejectsOpenAccepts ==
  [][ \A c \in Callers :
        /\ \A id \in LaneIdParams(MaxLanes), body \in BidBodies :
             ( /\ PostBid(c, id, body)
               /\ ~isNaN(parseInt(id)) /\ LaneOfParam(id) # undefined ) =>
               /\ LaneOfParam(id)[1].status = "archived" =>
                    /\ resp'.caller = c /\ resp'.op = "bid" /\ Refused(resp'.status)
                    /\ pending'[c].op = "idle"
                    /\ bids' = bids
               /\ ( /\ LaneOfParam(id)[1].status \in {"active", "ending_soon"}
                    /\ session[c].userId # 0 /\ session[c].role = "forwarder"
                    /\ ~NotPositive(body) ) =>
                    /\ pending'[c].op = "bid"
                    /\ pending'[c].laneId = parseInt(id).val
                    /\ pending'[c].body = body
        /\ pending[c].op = "bid" =>
             /\ resp'.caller = c /\ resp'.op = "bid" /\ resp'.status = 201
             /\ resp'.body.laneId = pending[c].laneId
             /\ resp'.body.userId = session[c].userId
             /\ Cardinality(bids' \ bids) = 1 /\ bids \subseteq bids'
             /\ \A b \in bids' \ bids :
                  b.id = resp'.body.id /\ b.laneId = pending[c].laneId ]_vars

\* a forwarder's bid was accepted on the lane while it was open, and after
\* the lane was archived the forwarder's next bid is refused
C5_Witness ==
  /\ resp.op = "bid" /\ resp.status = 400
  /\ resp.body = Msg("Cannot bid on inactive lanes")
  /\ session[resp.caller].role = "forwarder"
  /\ \E l \in lanes : l.status = "archived" /\ \E b \in bids : b.laneId = l.id

BidsOf(laneId) == { b \in bids : b.laneId = laneId }

\* C6: DELETE /lanes/:id of an existing lane removes the bids of that lane
\* and no other bid, then the lane, and answers 200; from then on no stored
\* bid references a lane that is gone, so the bid count of a deleted lane is
\* 0 and its minimum bid undefined (requests served one at a time).
C6_DeleteRemovesBids ==
  [][ /\ \A c \in Callers :
          /\ pending'[c].op = "delete-lane" =>
               /\ \A b \in bids' : b.laneId # pending'[c].laneId
               /\ \A b \in bids : b.laneId # pending'[c].laneId => b \in bids'
               /\ bids' \subseteq bids
          /\ pending[c].op = "delete-lane" =>
               /\ bids' = bids
               /\ resp'.caller = c /\ resp'.op = "delete-lane"
               /\ getLane(pending[c].laneId) # undefined =>
                    /\ resp'.status = 200
                    /\ \A l \in lanes' : l.id # pending[c].laneId
                    /\ \A b \in bids' : b.laneId # pending[c].laneId
      /\ \A b \in bids' : getLane(b.laneId)' # undefined
      /\ \A id \in 1..AggLanes :
          getLane(id)' = undefined =>
            /\ getBidCountForLane(id)' = 0
            /\ getLowestBidForLane(id)' = undefined ]_vars

\* a lane that had bids was deleted; the bids of the other lane are stored
C6_Witness ==
  /\ resp.op = "delete-lane" /\ resp.status = 200
  /\ bidSeq > Cardinality(bids)
  /\ \E l \in lanes : BidsOf(l.id) # {}
  /\ \A b \in bids : getLane(b.laneId) # undefined

\* the numeric minimum of the stored amounts of a lane that has bids
MinAmount(laneId) ==
  CHOOSE m \in { b.amount : b \in BidsOf(laneId) } :
    \A b \in BidsOf(laneId) : m <= b.amount

\* C7: for a lane that has bids, the minBid of GET /lanes, GET /lanes/:id
\* and GET /lanes/:id/min-bid is the numeric minimum of the amounts of that
\* lane's bids, in whatever order they were inserted.
C7_MinBidIsNumericMinimum ==
  [][ /\ (resp'.op = "lane" /\ resp'.status = 200 /\ BidsOf(resp'.body.id) # {}) =>
           resp'.body.minBid = Some(MinAmount(resp'.body.id))
      /\ (resp'.op = "lanes" /\ resp'.status = 200) =>
           \A i \in DOMAIN resp'.body.rows :
             BidsOf(resp'.body.rows[i].id) # {} =>
               resp'.body.rows[i].minBid = Some(MinAmount(resp'.body.rows[i].id))
      /\ \A c \in Callers, id \in LaneIdParams(AggLanes) :
           ( /\ resp'.op = "min-bid" /\ resp'.status = 200
             /\ GetMinBid(c, id)
             /\ BidsOf(parseInt(id).val) # {} ) =>
             resp'.body.minBid = Some(MinAmount(parseInt(id).val)) ]_vars

\* 10.00 was bid before 9.00 on the lane and the lane reports 9.00
C7_Witness ==
  /\ resp.op = "lane" /\ resp.status = 200
  /\ resp.body.minBid = Some(900)
  /\ \E b1, b2 \in BidsOf(resp.body.id) :
       b1.amount = 1000 /\ b2.amount = 900 /\ b1.id < b2.id

\* C8: the bidCount reported for a lane is the number of stored bids that
\* reference it; for a lane without bids bidCount is 0 and minBid undefined.
C8_NoBidsNoMinimum ==
  [][ /\ (resp'.op = "lane" /\ resp'.status = 200) =>
           /\ resp'.body.bidCount = Cardinality(BidsOf(resp'.body.id))
           /\ BidsOf(resp'.body.id) = {} =>
                resp'.body.minBid = undefined /\ resp'.body.bidCount = 0
      /\ (resp'.op = "lanes" /\ resp'.status = 200) =>
           \A i \in DOMAIN resp'.body.rows :
             /\ resp'.body.rows[i].bidCount = Cardinality(BidsOf(resp'.body.rows[i].id))
             /\ BidsOf(resp'.body.rows[i].id) = {} =>
                  /\ resp'.body.rows[i].minBid = undefined
                  /\ resp'.body.rows[i].bidCount = 0
      /\ \A c \in Callers, id \in LaneIdParams(AggLanes) :
           ( /\ resp'.op = "min-bid" /\ resp'.status = 200
             /\ GetMinBid(c, id)
             /\ BidsOf(parseInt(id).val) = {} ) =>
             resp'.body.minBid = undefined ]_vars

\* a lane without bids reports no minimum and count 0 while the other lane
\* has bids
C8_Witness ==
  /\ resp.op = "lane" /\ resp.status = 200
  /\ resp.body.bidCount = 0 /\ resp.body.minBid = undefined
  /\ bids # {}

\* the ids of the lanes listed in a response
ListedIds(rows) == { rows[i].id : i \in DOMAIN rows }

\* the stored lanes a status and a vehicleType filter keep
KeptByEnums(filters) ==
  { l \in lanes :
      /\ AppliesEnum(filters.status) => l.status = filters.status[1]
      /\ AppliesEnum(filters.vehicleType) => l.vehicleType = filters.vehicleType[1] }

EnumsOnly(filters) ==
  [filters EXCEPT !.loadingLocation = undefined, !.unloadingLocation = undefined]

LocationsOnly(filters) ==
  [filters EXCEPT !.status = undefined, !.vehicleType = undefined]

\* C9: GET /lanes of a signed-in caller with status and vehicleType filters
\* lists, once each, exactly the stored lanes whose status and vehicle type
\* equal the given values, "all" or an absent filter keeping every lane;
\* filters given together keep the lanes that every one of them keeps.
C9_EnumFiltersExact ==
  [][ \A c \in Callers, filters \in FilterQueries :
        (resp'.op = "lanes" /\ requireAuth(c) /\ GetLanes(c, filters)) =>
          /\ resp'.status = 200
          /\ Len(resp'.body.rows) = Cardinality(ListedIds(resp'.body.rows))
          /\ \A i \in DOMAIN resp'.body.rows :
               \E l \in lanes :
                 /\ l.id = resp'.body.rows[i].id
                 /\ l.status = resp'.body.rows[i].status
                 /\ l.vehicleType = resp'.body.rows[i].vehicleType
          /\ filters = EnumsOnly(filters) =>
               ListedIds(resp'.body.rows) = { l.id : l \in KeptByEnums(filters) }
          /\ \A only \in getLanes(LocationsOnly(filters)) :
               ListedIds(resp'.body.rows) =
                 { l.id : l \in KeptByEnums(filters) } \cap ListedIds(only) ]_vars

\* only the archived van lane is listed while an active 40t lane and an
\* archived 40t lane are stored
C9_Witness ==
  /\ resp.op = "lanes" /\ resp.status = 200
  /\ Len(resp.body.rows) = 1
  /\ resp.body.rows[1].status = "archived" /\ resp.body.rows[1].vehicleType = "van"
  /\ \E l \in lanes : l.status = "active" /\ l.vehicleType = "40t"
  /\ \E l \in lanes : l.status = "archived" /\ l.vehicleType = "40t"

\* C10: GET /lanes with location filters lists exactly the lanes whose
\* location includes the filter text, letter case ignored ("han" matches
\* "Hanover").  PgStorage.getLanes filters with LIKE, which compares letter
\* case, so the statement fails.
C10_LocationFilterIgnoresCase ==
  [][ \A c \in Callers, filters \in FilterQueries :
        (resp'.op = "lanes" /\ resp'.status = 200 /\ GetLanes(c, filters)) =>
          ListedIds(resp'.body.rows) =
            { l.id : l \in { m \in lanes : MemLaneMatches(m, filters) } } ]_vars

\* C11: a caller whose session role is forwarder gets an authorization error
\* without bid data from GET /lanes/:id/bids, whatever the lane id.  The
\* route parses the id and looks the lane up before it checks the role, so
\* the forwarder gets 400 for a malformed id and 404 for a missing lane.
C11_ForwarderGetsAuthorizationError ==
  [][ \A c \in Callers, id \in LaneIdParams(MaxLanes) :
        (session[c].role = "forwarder" /\ GetLaneBids(c, id)) =>
          /\ resp'.status \in {401, 403}
          /\ "rows" \notin DOMAIN resp'.body ]_vars

ProtectedOps ==
  AdminOps \cup {"me", "lanes", "lane", "min-bid", "user-bids", "bid"}

\* C13: on every protected endpoint a request without a session is answered
\* 401 and a request with a session of the wrong role 403.  requireAdmin
\* answers 403 to both, and the two bid routes look the lane up before they
\* check the role.
C13_DistinctStatusCodes ==
  [][ \A c \in Callers :
        (resp'.caller = c /\ resp'.op \in ProtectedOps) =>
          /\ session[c].userId = 0 => resp'.status = 401
          /\ ( /\ session[c].userId # 0
               /\ \/ resp'.op \in AdminOps /\ session[c].role # "admin"
                  \/ resp'.op = "bid" /\ session[c].role # "forwarder" ) =>
               resp'.status = 403 ]_vars

\* C14: a request answered with an error status has changed none of users,
\* lanes and bids: the step that answers leaves them as they are, and a
\* DELETE /lanes/:id answered with an error has removed no bid.
\* PgStorage.deleteLane deletes the bids, then the lane, in two statements
\* of no transaction: a bid inserted in between makes the second statement
\* fail and the route answer 500 after the earlier bids are gone.
C14_ErrorsChangeNothing ==
  [][ \A c \in Callers :
        (resp'.caller = c /\ Refused(resp'.status)) =>
          /\ users' = users /\ lanes' = lanes /\ bids' = bids
          /\ pending[c].op = "delete-lane" => pending[c].deleted = {} ]_vars

C17_NewestFirstUntruncated ==
  [][ \A c \in Callers, filters \in FilterQueries :
        (resp'.op = "lanes" /\ resp'.status = 200 /\ GetLanes(c, filters)) =>
          LET rows == resp'.body.rows
          IN /\ \A i, j \in DOMAIN rows :
                  i < j => rows[i].createdAt >= rows[j].createdAt
             /\ \A i \in DOMAIN rows :
                  \E l \in lanes : l.id = rows[i].id /\ l.createdAt = rows[i].createdAt
             /\ Len(rows) = Cardinality({ l \in lanes : LaneMatches(l, filters) })
             /\ ListedIds(rows) = { l.id : l \in { m \in lanes : LaneMatches(m, filters) } }
             /\ filters = NoFilter => Len(rows) = Cardinality(lanes) ]_vars

\* all three stored lanes are listed, the last created first
C17_Witness ==
  /\ resp.op = "lanes" /\ resp.status = 200
  /\ Len(resp.body.rows) = 3 /\ Cardinality(lanes) = 3
  /\ resp.body.rows[1].id = 3 /\ resp.body.rows[3].id = 1
  /\ resp.body.rows[1].createdAt > resp.body.rows[2].createdAt
  /\ resp.body.rows[2].createdAt > resp.body.rows[3].createdAt

\* a path parameter that is a number: digits only
IsNumberText(id) == id # <<>> /\ \A i \in DOMAIN id : IsDigit(id[i])

\* no lane has the id the parameter denotes
NoSuchLane(id) == IsNumberText(id) /\ getLane(StringToNat(id)) = undefined

\* C18: on GET/PUT/DELETE /lanes/:id, GET/POST /lanes/:id/bids and
\* GET /lanes/:id/min-bid a caller allowed to use the endpoint is answered
\* 400 when the id is not a number and 404 when no lane has that id, and
\* users, lanes and bids stay as they are.  The routes read the id with
\* parseInt, which takes the leading digits of "1x" for the id 1.
C18_BadLaneIdRejected ==
  [][ \A c \in Callers, id \in MixedIdParams(MaxLanes) :
        /\ ( /\ requireAuth(c)
             /\ GetLaneById(c, id) \/ GetMinBid(c, id) ) =>
             /\ ~IsNumberText(id) => resp'.status = 400
             /\ NoSuchLane(id) => resp'.status = 404
        /\ (requireAdmin(c) /\ GetLaneBids(c, id)) =>
             /\ ~IsNumberText(id) => resp'.status = 400
             /\ NoSuchLane(id) => resp'.status = 404
        /\ (requireAdmin(c) /\ \E body \in LaneUpdates : PutLane(c, id, body)) =>
             /\ ~IsNumberText(id) => resp'.status = 400
             /\ NoSuchLane(id) => resp'.status = 404
        /\ (MayBid(c) /\ \E body \in BidBodies : PostBid(c, id, body)) =>
             /\ ~IsNumberText(id) => resp'.status = 400
             /\ NoSuchLane(id) => resp'.status = 404
        /\ (requireAdmin(c) /\ DeleteLane(c, id)) =>
             /\ ~IsNumberText(id) => resp'.status = 400
             /\ NoSuchLane(id) => bids' = bids
        /\ (pending[c].op = "delete-lane" /\ getLane(pending[c].laneId) = undefined) =>
             resp'.status = 404
        /\ ( /\ ~IsNumberText(id) \/ NoSuchLane(id)
             /\ \/ GetLaneById(c, id) \/ GetMinBid(c, id) \/ GetLaneBids(c, id)
                \/ DeleteLane(c, id)
                \/ \E body \in LaneUpdates : PutLane(c, id, body)
                \/ \E body \in BidBodies : PostBid(c, id, body) ) =>
             (users' = users /\ lanes' = lanes /\ bids' = bids) ]_vars

\* C19: the step that accepts a bid submission (201) adds one row with a new
\* id for the lane and the user of the request and leaves every stored bid
\* as it is, also a bid of the same forwarder on the same lane and while
\* other submissions are in flight; no other step of a submission changes
\* bids; stored bids never share an id.
C19_AcceptedBidAddsOneRow ==
  [][ /\ \A c \in Callers :
           /\ PostBidInsert(c) =>
                IF resp'.status = 201
                THEN \E b \in bids' :
                       /\ b \notin bids /\ bids' = bids \cup {b}
                       /\ \A x \in bids : x.id # b.id
                       /\ b.laneId = pending[c].laneId
                       /\ b.userId = session[c].userId
                       /\ Cardinality(BidsOf(b.laneId))' = Cardinality(BidsOf(b.laneId)) + 1
                       /\ resp'.body.id = b.id
                ELSE bids' = bids
           /\ \A id \in LaneIdParams(RaceLanes), body \in AggBidBodies :
                PostBid(c, id, body) => bids' = bids /\ resp'.status # 201
      /\ \A b1, b2 \in bids' : b1.id = b2.id => b1 = b2 ]_vars

\* the same forwarder's second bid of the same amount on the lane was
\* accepted while another submission is in flight, and both bids are stored
C19_Witness ==
  /\ resp.op = "bid" /\ resp.status = 201
  /\ \E c \in Callers : pending[c].op = "bid"
  /\ \E b1, b2 \in bids :
       /\ b1.id # b2.id /\ b1.laneId = b2.laneId /\ b1.userId = b2.userId
       /\ b1.amount = b2.amount
       /\ resp.body.id = b2.id

\* C20: a forwarder's bid of a positive amount on an open lane is accepted
\* whatever bids the lane has: the request goes on to the insert, the insert
\* is answered 201 and stores the bid; when the amount is not below the
\* lane's minimum bid the minimum stays what it was.
C20_NonCompetitiveBidAccepted ==
  [][ \A c \in Callers :
        /\ (pending[c].op = "idle" /\ (resp'.op = "bid" \/ pending'[c].op = "bid")) =>
             \A id \in LaneIdParams(RankLanes), body \in RankBidBodies :
               ( /\ MayBid(c) /\ LaneOfParam(id) # undefined
                 /\ ~isNaN(parseInt(id)) /\ LaneIsOpen(LaneOfParam(id)[1])
                 /\ PostBid(c, id, body) ) =>
                 /\ pending'[c] = [op |-> "bid", laneId |-> parseInt(id).val, body |-> body]
                 /\ resp' = resp
        /\ PostBidInsert(c) =>
             \A L \in {pending[c].laneId} :
               /\ resp'.status = 201
               /\ \E b \in bids' \ bids :
                    /\ b.laneId = L /\ b.id = resp'.body.id
                    /\ b.amount = NumericRound(pending[c].body.amount.mills)
                    /\ bids' = bids \cup {b}
               /\ ( /\ BidsOf(L) # {}
                    /\ NumericRound(pending[c].body.amount.mills) >= MinAmount(L) ) =>
                    /\ \A b \in bids' : b.laneId = L => b.amount >= MinAmount(L)
                    /\ \E b \in bids' : b.laneId = L /\ b.amount = MinAmount(L) ]_vars

\* a bid of 500 was accepted and stored on a lane whose minimum bid is 300
C20_Witness ==
  /\ resp.op = "bid" /\ resp.status = 201
  /\ \E b \in bids :
       /\ b.id = resp.body.id /\ b.amount = 50000
       /\ \E o \in BidsOf(b.laneId) : o.id < b.id /\ o.amount = 30000
       /\ getLowestBidForLane(b.laneId) = Some(30000)

\* C21: for an admin and a valid body POST /api/lanes stores the lane and
\* answers 201 with it whether the notification was sent, threw or was
\* skipped for want of forwarders; a notification is handed to the transport
\* only by a lane creation answered 201, names the stored lane, and is
\* addressed to exactly the users whose role is forwarder.
C21_NotificationDecoupled ==
  [][ /\ resp'.op = "create-lane" =>
           \A c \in {resp'.caller}, body \in LaneBodies :
             PostLane(c, body) =>
               IF requireAdmin(c) /\ ValidLaneBody(WithCreatedBy(body, session[c].userId))
               THEN /\ resp'.status = 201
                    /\ resp'.body \notin lanes
                    /\ lanes' = lanes \cup {resp'.body}
                    /\ outbox'.outcome \in {"sent", "threw", "none"}
                    /\ outbox'.outcome = "none" <=>
                         ~ \E u \in users : u.role = "forwarder"
                    /\ outbox' # NoMail =>
                         /\ outbox'.laneId = resp'.body.id
                         /\ outbox'.to = { u.id : u \in { x \in users : x.role = "forwarder" } }
               ELSE outbox' = NoMail /\ lanes' = lanes
      /\ (outbox' # outbox /\ outbox' # NoMail) =>
           /\ resp'.op = "create-lane" /\ resp'.status = 201
           /\ \E l \in lanes' : l.id = outbox'.laneId
           /\ \A id \in outbox'.to : \E u \in users : u.id = id /\ u.role = "forwarder" ]_vars

\* the transport threw while notifying two forwarders and the lane was
\* stored and returned with 201
C21_Witness ==
  /\ resp.op = "create-lane" /\ resp.status = 201
  /\ outbox.outcome = "threw" /\ Cardinality(outbox.to) = 2
  /\ resp.body \in lanes /\ outbox.laneId = resp.body.id

\* no two stored users share a username
UniqueUsernames == \A u, v \in users : u.username = v.username => u = v

\* C22: POST /api/register by an admin with a username that belongs to a
\* stored user is answered 400 and creates no user; no two stored users ever
\* share a username, also when registrations of one username interleave.
C22_UsernamesUnique ==
  /\ []UniqueUsernames
  /\ [][ \A c \in Callers, body \in RegisterBodies :
           ( /\ pending[c].op = "idle" /\ requireAdmin(c)
             /\ getUserByUsername(body.username) # undefined
             /\ Register(c, body) ) =>
             /\ resp'.op = "register" /\ resp'.caller = c /\ resp'.status = 400
             /\ users' = users /\ pending'[c].op = "idle" ]_vars

\* two registrations of "acme" interleaved: one insert was refused, one
\* user is named acme, and a later registration of the name is answered 400
C22_Witness ==
  /\ resp.op = "register" /\ resp.status = 400
  /\ resp.body.message = "Username already exists"
  /\ userSeq = 4
  /\ Cardinality({ u \in users : u.username = "acme" }) = 1
  /\ Cardinality(users) = 3

\* C23: a bid is inserted only while its lane is active or ending_soon, also
\* when the submission interleaves with a PUT that archives the lane.  The
\* handler checks the status on the row it read before the insert, and the
\* insert does not look at the lane's status again.
C23_NoBidAfterArchiving ==
  [][ \A c \in Callers :
        (PostBidInsert(c) /\ bids' # bids) =>
          \E l \in lanes : l.id = pending[c].laneId /\ LaneIsOpen(l) ]_vars

\* C24: every stored bid references a stored lane and a stored user, and
\* every lane's createdBy a stored user, under every interleaving of lane
\* deletion, lane update and bid submission.
C24_ReferentialIntegrity ==
  /\ \A b \in bids :
       /\ \E l \in lanes : l.id = b.laneId
       /\ \E u \in users : u.id = b.userId
  /\ \A l \in lanes : \E u \in users : u.id = l.createdBy

\* a bid was inserted between the two statements of a lane deletion and the
\* delete of the lane was refused: the lane and its new bid are both stored
C24_Witness ==
  /\ resp.op = "delete-lane" /\ resp.status = 500
  /\ \E b \in bids, l \in lanes : b.laneId = l.id

\* C25: under any sequence of requests a stored bid stays as it is, field by
\* field, unless a DELETE /api/lanes/:id of its own lane removes it; the
\* bids a step adds have ids no stored bid has.
C25_BidsImmutable ==
  [][ bids' # bids =>
        /\ \A b \in bids \ bids' :
             /\ \A x \in bids' : x.id # b.id
             /\ \E c \in Callers, id \in LaneIdParams(MaxLanes) :
                  DeleteLane(c, id) /\ parseInt(id).val = b.laneId
        /\ \A x \in bids' \ bids : \A b \in bids : b.id # x.id ]_vars

\* a lane with a bid was archived by a PUT answered 200
C25_Witness ==
  /\ resp.op = "update-lane" /\ resp.status = 200 /\ resp.body.status = "archived"
  /\ \E b \in bids : b.laneId = resp.body.id

\* C26: every stored bid has an amount above 0 at two decimal places.  The
\* validation is made on the JS number; the column rounds what passes it.
C26_StoredAmountPositive ==
  \A b \in bids : b.amount > 0

C28_MinBidAgreesWithCount ==
  (resp.op = "lane" /\ resp.status = 200) =>
    (resp.body.minBid = undefined <=> resp.body.bidCount = 0)

\* C29: a POST /api/logout answered 200 leaves the caller without a session;
\* a caller without a session gets one only by a login answered 200; and as
\* long as the caller has none, every request to an endpoint that needs a
\* session or a role is answered 401 or 403, goes no further, and leaves
\* users, lanes and bids as they are.
C29_LoggedOutIsRefused ==
  [][ \A c \in Client :
        /\ (resp'.caller = c /\ resp'.op = "logout" /\ resp'.status = 200) =>
             session'[c] = NoSession
        /\ session[c] = NoSession =>
             /\ session'[c] # NoSession =>
                  resp'.caller = c /\ resp'.op = "login" /\ resp'.status = 200
             /\ (resp'.caller = c /\ resp'.op \in ProtectedOps) =>
                  resp'.status \in {401, 403}
             /\ pending'[c].op = "idle"
             /\ UNCHANGED <<users, lanes, bids>> ]_vars

\* the admin created a lane and logged out; the caller's next request for
\* the lane is answered 401
C29_Witness ==
  /\ lanes # {} /\ session["c1"] = NoSession
  /\ resp.caller = "c1" /\ resp.op = "lane" /\ resp.status = 401

\* C30: a PUT /api/lanes/:id answered 200 returns and stores the addressed
\* lane with the fields of the body set and every other field, id and
\* createdAt included, as before; every other lane, all bids and all users
\* are left as they are.
C30_UpdateChangesOnlyGivenFields ==
  [][ (resp'.op = "update-lane" /\ resp'.status = 200) =>
        \A c \in {resp'.caller} :
          PutLaneUpdate(c) =>
            \E old \in lanes :
              LET body == pending[c].body
                  new == resp'.body
              IN /\ old.id = pending[c].laneId
                 /\ lanes' = (lanes \ {old}) \cup {new}
                 /\ new.id = old.id /\ new.createdAt = old.createdAt
                 /\ DOMAIN new = DOMAIN old
                 /\ \A f \in UpdatableFields :
                      new[f] = IF f \in DOMAIN body THEN body[f] ELSE old[f]
                 /\ bids' = bids /\ users' = users ]_vars

\* of two lanes the one that has a bid was archived by a PUT answered 200
C30_Witness ==
  /\ resp.op = "update-lane" /\ resp.status = 200 /\ resp.body.status = "archived"
  /\ Cardinality(lanes) = 2
  /\ \E b \in bids : b.laneId = resp.body.id

====
